---- MODULE Spec2Model ----
(***************************************************************************)
(* The per-Remote ingestion pipeline of sift-agent: core.WatchRemote (the  *)
(* orchestrator, its settling timers, the event sources), core.handleUpload*)
(* (the stability loop), api.UploadFile, core.moveToDone and the db        *)
(* package's file_log table.                                               *)
(*                                                                         *)
(* Time is counted in ticks.  A timer or a sleep cannot end before its     *)
(* duration has elapsed; a goroutine may be scheduled arbitrarily late.    *)
(* The bytes of a file are named by the modification time at which they    *)
(* were written: the environment gives every write a fresh mod time.       *)
(***************************************************************************)
EXTENDS Integers, Sequences, FiniteSets, TLC

\* ------------------------------------------------------------------ bounds

\* The entries of the watched directory: two regular files, a temporary file
\* with a dot name, a subdirectory, and the agent's own .done directory.
AllPaths == {"a", "b", ".tmp", "sub", ".done"}
Sizes == {1, 2}

\* eventChan and doneChan are made with capacity 100; the model scales it.
EventChanCap == 2
DoneChanCap == 2
\* Worker goroutines alive at once, fired timer closures waiting to send.
MaxWorkers == 2
MaxClosures == 2
MaxOrphans == 1

\* The arguments the file-log functions are called with, and how far
\* increment_error is repeated on one row.
DbPaths == {"a", "b"}
DbHashes == {1, 2}
DbModTimes == {1, 2}
DbSizes == {0, 1}
MaxIncrements == 2

\* ------------------------------------------------------- program constants

StatusPending == "PENDING"
StatusUploaded == "UPLOADED"
StatusVerified == "VERIFIED"
StatusCorrupt == "CORRUPT"
StatusFailed == "FAILED"

DefaultConcurrencyLimit == 5
DefaultStabilityThreshold == 2
\* One tick is five seconds: 5s, 5s and 30m.
DefaultSettlingDelay == 1
DefaultCheckInterval == 1
DefaultStabilityTimeout == 360
MaxErrorCount == 10
MaxAttempts == 3

VARIABLES
    remote,            \* config.RemoteConfig, fixed for the pipeline's lifetime
    env,               \* what the environment may still do (writes, failures, ...)
    fs,                \* the watched directory: path -> file
    doneDir,           \* .done: path -> the bytes archived from that path
    stamped,           \* .done: path -> the bytes of the entry {this second}_{path}
    fileLog,           \* the file_log table: path -> row
    delivered,         \* server side: path -> the bytes received with a 2xx
    okSinceWrite,      \* server side: 2xx uploads of the path since its last write
    fsEvents,          \* fsnotify events not yet read by the notifier
    scanTodo,          \* entries the initial scan has still to probe
    eventChan,
    doneChan,
    pendingStates,     \* orchestrator: path -> fileState
    activeProcessing,  \* orchestrator: set of paths
    orphanTimers,      \* running timers no fileState refers to any more
    closures,          \* fired timer closures that have not sent START yet
    semaphore,         \* number of slots taken
    workers,           \* worker goroutines
    ctxDone,           \* the cancellation signal was given
    orchExited,        \* the orchestrator took its ctx.Done branch
    age                \* ticks since the orchestrator last stored a new (size, mod)

vars == <<remote, env, fs, doneDir, stamped, fileLog, delivered, okSinceWrite, fsEvents,
          scanTodo, eventChan, doneChan, pendingStates, activeProcessing,
          orphanTimers, closures, semaphore, workers, ctxDone, orchExited, age>>

envVars == <<env, fs, doneDir, stamped, fileLog, delivered, okSinceWrite>>
orchVars == <<pendingStates, activeProcessing, orphanTimers, closures>>

\* ----------------------------------------------------------------- helpers

Min(a, b) == IF a < b THEN a ELSE b

NoTimer == 0 - 1
NoAge == 0 - 1
NoBytes == 0 - 1

\* A semaphore one slot wider than configured.
LimitPlusOne(r) == r.ConcurrencyLimit + 1

\* WatchRemote: limit := remote.ConcurrencyLimit; if limit <= 0 { limit = 5 }
Limit(r) == IF r.ConcurrencyLimit <= 0 THEN DefaultConcurrencyLimit ELSE r.ConcurrencyLimit

\* A duration field of the configuration holds a text.  The texts that
\* time.ParseDuration accepts are written as their number of ticks ("0s" is
\* 0); NotADuration stands for every text it rejects, the empty one included.
NotADuration == 0 - 1

\* time.ParseDuration: (d, nil), or (0, err) for a text that does not parse.
ParseDuration(text) ==
    IF text = NotADuration THEN [d |-> 0, err |-> TRUE] ELSE [d |-> text, err |-> FALSE]

\* WatchRemote: settling, err := time.ParseDuration(...); if err != nil { 5s }
Settling(r) ==
    IF ParseDuration(r.SettlingDelay).err THEN DefaultSettlingDelay
    ELSE ParseDuration(r.SettlingDelay).d

\* handleUpload: threshold := remote.StabilityThreshold; if threshold <= 0 { 2 }
Threshold(r) == IF r.StabilityThreshold <= 0 THEN DefaultStabilityThreshold ELSE r.StabilityThreshold

\* handleUpload: checkInt, _ := time.ParseDuration(...); if checkInt == 0 { 5s }
CheckInt(r) ==
    IF ParseDuration(r.CheckInterval).d = 0 THEN DefaultCheckInterval
    ELSE ParseDuration(r.CheckInterval).d

\* handleUpload: maxWait, _ := time.ParseDuration(...); if maxWait == 0 { 30m }
MaxWait(r) ==
    IF ParseDuration(r.StabilityTimeout).d = 0 THEN DefaultStabilityTimeout
    ELSE ParseDuration(r.StabilityTimeout).d

\* The least time the spec promises between a change and the upload.
SettleMin(r) == Settling(r) + Threshold(r) * CheckInt(r)

NoFileState == [exists |-> FALSE, lastSize |-> 0, lastMod |-> 0, timer |-> NoTimer]

NoRecord == [present |-> FALSE, status |-> "", hash |-> 0, mod |-> 0, size |-> 0, ec |-> 0]

IdleWorker == [pc |-> "idle", path |-> "-", infoMod |-> 0, lastSize |-> 0,
               stableCount |-> 0, elapsed |-> 0, sleep |-> 0, localHash |-> 0,
               attempt |-> 0, resp |-> "none", posts |-> 0, exit |-> "none",
               matched |-> FALSE, unstable |-> FALSE, wrote |-> FALSE]

Event(p) == [path |-> p, size |-> fs[p].size, mod |-> fs[p].mod]
Msg(k, p) == [kind |-> k, path |-> p]

\* Insert a remaining time into an ascending sequence.
RECURSIVE InsertSorted(_, _)
InsertSorted(s, x) ==
    IF s = <<>> THEN <<x>>
    ELSE IF x <= Head(s) THEN <<x>> \o s
    ELSE <<Head(s)>> \o InsertSorted(Tail(s), x)

\* ---------------------------------------------------------------- file log

\* db.GetFileRecord: ("", 0, "", 0) when there is no row.
GetFileRecord(p) ==
    IF fileLog[p].present
    THEN [status |-> fileLog[p].status, mod |-> fileLog[p].mod,
          hash |-> fileLog[p].hash, ec |-> fileLog[p].ec]
    ELSE [status |-> "", mod |-> 0, hash |-> 0, ec |-> 0]

\* An upsert whose update leaves error_count as it is.
UpdateKeepingErrors(log, p, status, hash, modTime, size) ==
    [log EXCEPT ![p] = [present |-> TRUE, status |-> status, hash |-> hash,
                        mod |-> modTime, size |-> size, ec |-> log[p].ec]]

\* db.UpdateFileStatus: INSERT ... ON CONFLICT DO UPDATE, error_count = 0.
UpdateFileStatus(log, p, status, hash, modTime, size) ==
    [log EXCEPT ![p] = [present |-> TRUE, status |-> status, hash |-> hash,
                        mod |-> modTime, size |-> size, ec |-> 0]]

\* An increment that inserts a row for a path that has none.
IncrementOrInsert(log, p) ==
    IF log[p].present THEN [log EXCEPT ![p].ec = @ + 1]
    ELSE [log EXCEPT ![p] = [present |-> TRUE, status |-> StatusFailed, hash |-> 0,
                             mod |-> 0, size |-> 0, ec |-> 1]]

\* db.IncrementError: an UPDATE, which changes no row when there is none.
IncrementError(log, p) ==
    IF log[p].present THEN [log EXCEPT ![p].ec = @ + 1] ELSE log

\* db.MarkCorrupt: an UPDATE as well.
MarkCorrupt(log, p) ==
    IF log[p].present THEN [log EXCEPT ![p].status = StatusCorrupt] ELSE log

\* A reset that ignores its target.
ResetEverything(log, target) == [q \in AllPaths |-> NoRecord]

\* db.ResetHistory
ResetHistory(log, target) ==
    IF target /= "" THEN [q \in AllPaths |-> IF q = target THEN NoRecord ELSE log[q]]
    ELSE [q \in AllPaths |-> NoRecord]

\* ------------------------------------------------------------- environment

\* Another process writes (or creates) the file p: new bytes, a fresh mod time,
\* and it may keep the file open exclusively.
Write(p, s, lk) ==
    /\ env.writes[p] > 0
    /\ env' = [env EXCEPT !.writes[p] = @ - 1]
    /\ fs' = [fs EXCEPT ![p] = [exists |-> TRUE, size |-> s, mod |-> @.mod + 1, locked |-> lk]]
    /\ okSinceWrite' = [okSinceWrite EXCEPT ![p] = 0]
    /\ fsEvents' = IF remote.DisableFsnotify THEN fsEvents ELSE fsEvents \cup {p}
    /\ UNCHANGED <<remote, doneDir, stamped, fileLog, delivered, scanTodo, eventChan, doneChan,
                   orchVars, semaphore, workers, ctxDone, orchExited, age>>

\* The writer closes its handle.
Unlock(p) ==
    /\ fs[p].exists
    /\ fs[p].locked
    /\ fs' = [fs EXCEPT ![p].locked = FALSE]
    /\ UNCHANGED <<remote, env, doneDir, stamped, fileLog, delivered, okSinceWrite, fsEvents,
                   scanTodo, eventChan, doneChan, orchVars, semaphore, workers,
                   ctxDone, orchExited, age>>

\* Another process takes the file p away (it deletes it, or renames it); a
\* later write puts a file of that name back.  fsnotify reports a Remove or
\* Rename, which the notifier does not pass on.
Remove(p) ==
    /\ env.removes > 0
    /\ fs[p].exists
    /\ env' = [env EXCEPT !.removes = @ - 1]
    /\ fs' = [fs EXCEPT ![p].exists = FALSE, ![p].locked = FALSE]
    /\ UNCHANGED <<remote, doneDir, stamped, fileLog, delivered, okSinceWrite, fsEvents,
                   scanTodo, eventChan, doneChan, orchVars, semaphore, workers,
                   ctxDone, orchExited, age>>

\* The wall clock reaches the next second: a file moved from now on gets
\* another time-stamped name.
SecondPasses ==
    /\ \E p \in AllPaths : stamped[p] /= NoBytes
    /\ stamped' = [p \in AllPaths |-> NoBytes]
    /\ UNCHANGED <<remote, env, fs, doneDir, fileLog, delivered, okSinceWrite, fsEvents,
                   scanTodo, eventChan, doneChan, orchVars, semaphore, workers,
                   ctxDone, orchExited, age>>

\* A goroutine that is runnable runs before the clock moves on: the worker at
\* the head of its loop, or whose time.After has expired.
Urgent(w) == w.pc = "loop" \/ (w.pc = "sleep" /\ w.sleep = 0)

TickWorker(w) ==
    IF w.pc = "sleep"
    THEN [w EXCEPT !.sleep = IF @ > 0 THEN @ - 1 ELSE 0,
                   !.elapsed = Min(@ + 1, MaxWait(remote) + CheckInt(remote))]
    ELSE w

TickTimer(t) == IF t > 0 THEN t - 1 ELSE t

\* A configuration that relies on a default duration fixes the tick at five
\* seconds; one that gives all its durations leaves the length of a tick
\* open, and it may be well under a second.
TickIsSeconds(r) ==
    \/ ParseDuration(r.SettlingDelay).err
    \/ ParseDuration(r.CheckInterval).d = 0
    \/ ParseDuration(r.StabilityTimeout).d = 0

Tick ==
    /\ \A i \in 1..MaxWorkers : ~Urgent(workers[i])
    /\ pendingStates' = [p \in AllPaths |->
                            [pendingStates[p] EXCEPT !.timer = TickTimer(@)]]
    /\ orphanTimers' = [p \in AllPaths |->
                            [k \in 1..Len(orphanTimers[p]) |-> TickTimer(orphanTimers[p][k])]]
    /\ workers' = [i \in 1..MaxWorkers |-> TickWorker(workers[i])]
    /\ age' = [p \in AllPaths |->
                  IF age[p] = NoAge THEN NoAge ELSE Min(age[p] + 1, SettleMin(remote))]
    /\ stamped' = IF TickIsSeconds(remote) THEN [p \in AllPaths |-> NoBytes] ELSE stamped
    /\ UNCHANGED <<remote, env, fs, doneDir, fileLog, delivered, okSinceWrite, fsEvents,
                   scanTodo, eventChan, doneChan, activeProcessing, closures,
                   semaphore, ctxDone, orchExited>>

\* ----------------------------------------------------------- event sources

\* info.IsDir()
Dirs == {"sub", ".done"}

\* filepath.Base(path)[0] == '.'
Hidden == {".tmp", ".done"}

\* A probe that lets dot names through.
EligibleUnfiltered(p) == fs[p].exists /\ p \notin Dirs

\* probeAndSend: os.Stat fails, or a directory, or a dot name -> nothing is
\* sent; otherwise a blocking send on eventChan.
Eligible(p) == fs[p].exists /\ p \notin Dirs /\ p \notin Hidden

ProbeAndSend(p) ==
    IF Eligible(p)
    THEN /\ Len(eventChan) < EventChanCap
         /\ eventChan' = Append(eventChan, Event(p))
    ELSE UNCHANGED eventChan

\* The poller's ticker fired and its scan reached p.
PollProbe(p) ==
    /\ ~ctxDone
    /\ Eligible(p)
    /\ ProbeAndSend(p)
    /\ UNCHANGED <<remote, envVars, fsEvents, scanTodo, doneChan, orchVars,
                   semaphore, workers, ctxDone, orchExited, age>>

\* The notifier reads a Create or Write event for p.
NotifyProbe(p) ==
    /\ ~ctxDone
    /\ ~remote.DisableFsnotify
    /\ p \in fsEvents
    /\ ProbeAndSend(p)
    /\ fsEvents' = fsEvents \ {p}
    /\ UNCHANGED <<remote, envVars, scanTodo, doneChan, orchVars, semaphore,
                   workers, ctxDone, orchExited, age>>

\* The initial scan of WatchRemote reaches p.
ScanProbe(p) ==
    /\ p \in scanTodo
    /\ ProbeAndSend(p)
    /\ scanTodo' = scanTodo \ {p}
    /\ UNCHANGED <<remote, envVars, fsEvents, doneChan, orchVars, semaphore,
                   workers, ctxDone, orchExited, age>>

\* ------------------------------------------------------------ orchestrator

\* A metadata check that looks at the size only.
MetadataSizeOnly(state, e) == e.size /= state.lastSize

\* An orchestrator that treats every event as a change.
MetadataAlwaysChanged(state, e) == TRUE

\* METADATA CHECK: only reset the timer if the file actually changed.
MetadataChanged(state, e) == e.size /= state.lastSize \/ e.mod /= state.lastMod

\* case e := <-eventChan
OrchEvent ==
    /\ ~orchExited
    /\ eventChan /= <<>>
    /\ LET e == Head(eventChan)
           p == e.path
           fresh == [exists |-> TRUE, lastSize |-> e.size, lastMod |-> e.mod,
                     timer |-> Settling(remote)]
       IN  /\ eventChan' = Tail(eventChan)
           /\ IF p \in activeProcessing
              THEN UNCHANGED <<pendingStates, age>>
              ELSE IF pendingStates[p].exists
                   THEN IF MetadataChanged(pendingStates[p], e)
                        THEN /\ pendingStates' = [pendingStates EXCEPT ![p] = fresh]
                             /\ age' = [age EXCEPT ![p] = 0]
                        ELSE UNCHANGED <<pendingStates, age>>
                   ELSE /\ pendingStates' = [pendingStates EXCEPT ![p] = fresh]
                        /\ age' = [age EXCEPT ![p] = 0]
    /\ UNCHANGED <<remote, envVars, fsEvents, scanTodo, doneChan, activeProcessing,
                   orphanTimers, closures, semaphore, workers, ctxDone, orchExited>>

\* time.AfterFunc: the settling timer of p's fileState expires and its closure
\* starts to run.
TimerFire(p) ==
    /\ pendingStates[p].exists
    /\ pendingStates[p].timer = 0
    /\ closures[p] < MaxClosures
    /\ pendingStates' = [pendingStates EXCEPT ![p].timer = NoTimer]
    /\ closures' = [closures EXCEPT ![p] = @ + 1]
    /\ UNCHANGED <<remote, envVars, fsEvents, scanTodo, eventChan, doneChan,
                   activeProcessing, orphanTimers, semaphore, workers, ctxDone,
                   orchExited, age>>

\* A timer whose fileState START has already deleted expires.
OrphanFire(p) ==
    /\ orphanTimers[p] /= <<>>
    /\ Head(orphanTimers[p]) = 0
    /\ closures[p] < MaxClosures
    /\ orphanTimers' = [orphanTimers EXCEPT ![p] = Tail(@)]
    /\ closures' = [closures EXCEPT ![p] = @ + 1]
    /\ UNCHANGED <<remote, envVars, fsEvents, scanTodo, eventChan, doneChan,
                   pendingStates, activeProcessing, semaphore, workers, ctxDone,
                   orchExited, age>>

\* The closure: doneChan <- "START:" + pathCopy
ClosureSend(p) ==
    /\ closures[p] > 0
    /\ Len(doneChan) < DoneChanCap
    /\ doneChan' = Append(doneChan, Msg("START", p))
    /\ closures' = [closures EXCEPT ![p] = @ - 1]
    /\ UNCHANGED <<remote, envVars, fsEvents, scanTodo, eventChan, pendingStates,
                   activeProcessing, orphanTimers, semaphore, workers, ctxDone,
                   orchExited, age>>

IdleSlots == {i \in 1..MaxWorkers : workers[i].pc = "idle"}
FreeSlot == CHOOSE i \in IdleSlots : \A j \in IdleSlots : i <= j

\* A START branch that takes the slot itself before it starts the goroutine:
\* the orchestrator waits in its send on the semaphore.
OrchStartInline ==
    /\ ~orchExited
    /\ doneChan /= <<>>
    /\ Head(doneChan).kind = "START"
    /\ IdleSlots /= {}
    /\ semaphore < Limit(remote)
    /\ LET p == Head(doneChan).path
       IN  /\ ~(pendingStates[p].exists /\ pendingStates[p].timer >= 0)
           /\ doneChan' = Tail(doneChan)
           /\ pendingStates' = [pendingStates EXCEPT ![p] = NoFileState]
           /\ activeProcessing' = activeProcessing \cup {p}
           /\ semaphore' = semaphore + 1
           /\ workers' = [workers EXCEPT ![FreeSlot] =
                             [IdleWorker EXCEPT !.pc = "start", !.path = p]]
    /\ UNCHANGED <<remote, envVars, fsEvents, scanTodo, eventChan, orphanTimers,
                   closures, ctxDone, orchExited, age>>

\* case msg := <-doneChan, "START:": delete(pendingStates, path);
\* activeProcessing[path] = true; go func(p) {...}(path)
OrchStart ==
    /\ ~orchExited
    /\ doneChan /= <<>>
    /\ Head(doneChan).kind = "START"
    /\ IdleSlots /= {}
    /\ LET p == Head(doneChan).path
           running == pendingStates[p].exists /\ pendingStates[p].timer >= 0
       IN  /\ running => Len(orphanTimers[p]) < MaxOrphans
           /\ doneChan' = Tail(doneChan)
           /\ pendingStates' = [pendingStates EXCEPT ![p] = NoFileState]
           /\ orphanTimers' = IF running
                              THEN [orphanTimers EXCEPT
                                       ![p] = InsertSorted(@, pendingStates[p].timer)]
                              ELSE orphanTimers
           /\ activeProcessing' = activeProcessing \cup {p}
           /\ workers' = [workers EXCEPT ![FreeSlot] =
                             [IdleWorker EXCEPT !.pc = "acquire", !.path = p]]
    /\ UNCHANGED <<remote, envVars, fsEvents, scanTodo, eventChan, closures,
                   semaphore, ctxDone, orchExited, age>>

\* case msg := <-doneChan, "FINISH:": delete(activeProcessing, path)
OrchFinish ==
    /\ ~orchExited
    /\ doneChan /= <<>>
    /\ Head(doneChan).kind = "FINISH"
    /\ doneChan' = Tail(doneChan)
    /\ activeProcessing' = activeProcessing \ {Head(doneChan).path}
    /\ UNCHANGED <<remote, envVars, fsEvents, scanTodo, eventChan, pendingStates,
                   orphanTimers, closures, semaphore, workers, ctxDone, orchExited, age>>

\* case <-ctx.Done(): return
OrchExit ==
    /\ ctxDone
    /\ ~orchExited
    /\ orchExited' = TRUE
    /\ UNCHANGED <<remote, envVars, fsEvents, scanTodo, eventChan, doneChan,
                   orchVars, semaphore, workers, ctxDone, age>>


\* ----------------------------------------------------------------- workers

othersUnchanged == <<remote, fsEvents, scanTodo, eventChan, orchVars, ctxDone,
                     orchExited, age>>

\* A return that skips the deferred function after a stability timeout.
ReturningLeaky(w, why) ==
    IF why = "timeout" THEN IdleWorker
    ELSE [IdleWorker EXCEPT !.pc = "release", !.path = w.path, !.resp = w.resp,
                            !.posts = w.posts, !.matched = w.matched,
                            !.unstable = w.unstable, !.wrote = w.wrote, !.exit = why]

\* handleUpload returns (why names the return statement): what is left of the
\* worker until its deferred function has run.
Returning(w, why) ==
    [IdleWorker EXCEPT !.pc = "release", !.path = w.path, !.resp = w.resp,
                       !.posts = w.posts, !.matched = w.matched,
                       !.unstable = w.unstable, !.wrote = w.wrote, !.exit = why]

\* semaphore <- struct{}{}
W_Acquire(i) ==
    /\ workers[i].pc = "acquire"
    /\ semaphore < Limit(remote)
    /\ semaphore' = semaphore + 1
    /\ workers' = [workers EXCEPT ![i].pc = "start"]
    /\ UNCHANGED <<envVars, doneChan, othersUnchanged>>

\* A self-heal test that accepts only VERIFIED rows.
AlreadyVerified(rec, mod) == rec.status = StatusVerified /\ rec.mod = mod

\* handleUpload: (status == UPLOADED || status == VERIFIED) && dbModTime == info.ModTime()
AlreadyDelivered(rec, mod) ==
    (rec.status = StatusUploaded \/ rec.status = StatusVerified) /\ rec.mod = mod

\* An abandonment that already applies at ten errors.
TooManyErrorsAtTen(rec) == rec.ec >= MaxErrorCount

\* handleUpload: errorCount > 10
TooManyErrors(rec) == rec.ec > MaxErrorCount

\* handleUpload up to the stability loop: os.Stat, db.GetFileRecord, the two
\* early returns, then lastSize, stableCount and startTime.
W_Start(i) ==
    /\ workers[i].pc = "start"
    /\ LET w == workers[i]
           p == w.path
           rec == GetFileRecord(p)
           seen == [w EXCEPT !.matched = fs[p].exists /\ fileLog[p].present
                                          /\ fileLog[p].status \in {"UPLOADED", "VERIFIED"}
                                          /\ fileLog[p].mod = fs[p].mod]
       IN  workers' = [workers EXCEPT ![i] =
              IF ~fs[p].exists THEN Returning(seen, "missing")
              ELSE IF TooManyErrors(rec) THEN Returning(seen, "errors")
              ELSE IF AlreadyDelivered(rec, fs[p].mod) THEN [seen EXCEPT !.pc = "healmove"]
              ELSE [seen EXCEPT !.pc = "loop", !.infoMod = fs[p].mod,
                                !.lastSize = fs[p].size, !.stableCount = 0,
                                !.elapsed = 0, !.unstable = TRUE]]
    /\ UNCHANGED <<envVars, doneChan, semaphore, othersUnchanged>>

\* moveToDone: os.Rename(absPath, dest) moves the bytes into .done; the rename
\* is refused when the file is gone, held open by its writer, or by the host.
\* dest is .done/base, or, when os.Stat finds that entry, .done/{unix}_base
\* with the present second; os.Rename replaces an entry that has its name.
\* The first file moved from a path takes .done/base and nothing removes it.
RenameWorks(p) == fs[p].exists /\ ~fs[p].locked

MoveToDone(p) ==
    \/ /\ RenameWorks(p)
       /\ fs' = [fs EXCEPT ![p].exists = FALSE]
       /\ IF doneDir[p] = {}
          THEN /\ doneDir' = [doneDir EXCEPT ![p] = {fs[p].mod}]
               /\ UNCHANGED stamped
          ELSE /\ doneDir' = [doneDir EXCEPT ![p] = (@ \ {stamped[p]}) \cup {fs[p].mod}]
               /\ stamped' = [stamped EXCEPT ![p] = fs[p].mod]
       /\ UNCHANGED env
    \/ /\ ~RenameWorks(p)
       /\ UNCHANGED <<fs, doneDir, stamped, env>>
    \/ /\ RenameWorks(p)
       /\ env.renameFails > 0
       /\ env' = [env EXCEPT !.renameFails = @ - 1]
       /\ UNCHANGED <<fs, doneDir, stamped>>

\* handleUpload: the self-healing moveToDone, then return.
W_HealMove(i) ==
    /\ workers[i].pc = "healmove"
    /\ MoveToDone(workers[i].path)
    /\ workers' = [workers EXCEPT ![i] = Returning(@, "healed")]
    /\ UNCHANGED <<fileLog, delivered, okSinceWrite, doneChan, semaphore, othersUnchanged>>

\* A stability loop without its timeout.
NeverTimedOut(w) == FALSE

\* handleUpload: time.Since(startTime) > maxWait
TimedOut(w) == w.elapsed > MaxWait(remote)

\* for stableCount < threshold { if timed out { return }; select { time.After ...
W_Loop(i) ==
    /\ workers[i].pc = "loop"
    /\ LET w == workers[i]
       IN  workers' = [workers EXCEPT ![i] =
              IF w.stableCount >= Threshold(remote) THEN [w EXCEPT !.pc = "hash", !.elapsed = 0]
              ELSE IF TimedOut(w) THEN Returning(w, "timeout")
              ELSE [w EXCEPT !.pc = "sleep", !.sleep = CheckInt(remote)]]
    /\ UNCHANGED <<envVars, doneChan, semaphore, othersUnchanged>>

\* A probe without the lock probe.
ProbeCountIgnoringLock(w, size, locked) ==
    IF size /= w.lastSize THEN 0 ELSE w.stableCount + 1

\* The probe's verdict on the stability counter: a size change or a refused
\* read-write open resets it, otherwise it grows by one.
ProbeCount(w, size, locked) ==
    IF size /= w.lastSize THEN 0
    ELSE IF locked THEN 0
    ELSE w.stableCount + 1

\* case <-time.After(checkInt): os.Stat, growth check, lock probe.
W_Probe(i) ==
    /\ workers[i].pc = "sleep"
    /\ workers[i].sleep = 0
    /\ LET w == workers[i]
           p == w.path
       IN  workers' = [workers EXCEPT ![i] =
              IF ~fs[p].exists THEN Returning(w, "stat")
              ELSE [w EXCEPT !.pc = "loop",
                             !.stableCount = ProbeCount(w, fs[p].size, fs[p].locked),
                             !.lastSize = fs[p].size,
                             !.unstable = w.unstable /\ fs[p].size /= w.lastSize]]
    /\ UNCHANGED <<envVars, doneChan, semaphore, othersUnchanged>>

\* A cancelled stability loop that records the file as FAILED.
W_CancelSleepRecorded(i) ==
    /\ workers[i].pc = "sleep"
    /\ ctxDone
    /\ fileLog' = UpdateFileStatus(fileLog, workers[i].path, StatusFailed, 0, 0, 0)
    /\ workers' = [workers EXCEPT ![i] = Returning(@, "cancel")]
    /\ UNCHANGED <<env, fs, doneDir, stamped, delivered, okSinceWrite, doneChan, semaphore,
                   othersUnchanged>>

\* case <-ctx.Done(): return   (inside the stability loop)
W_CancelSleep(i) ==
    /\ workers[i].pc = "sleep"
    /\ ctxDone
    /\ workers' = [workers EXCEPT ![i] = Returning(@, "cancel")]
    /\ UNCHANGED <<envVars, doneChan, semaphore, othersUnchanged>>

\* os.Open and the read-only handles of the hash and of the POST.
Readable(p) == fs[p].exists /\ ~fs[p].locked

\* UploadFile: os.Open, io.Copy(hasher, f); return when the file cannot be read.
W_Hash(i) ==
    /\ workers[i].pc = "hash"
    /\ LET w == workers[i]
           p == w.path
       IN  workers' = [workers EXCEPT ![i] =
              IF Readable(p)
              THEN [w EXCEPT !.pc = "post", !.localHash = fs[p].mod, !.attempt = 0]
              ELSE Returning(w, "unreadable")]
    /\ UNCHANGED <<envVars, doneChan, semaphore, othersUnchanged>>

\* UploadFile: err == nil && 200 <= status < 300.  The request body is read
\* from the file when the request is made.  sha is what the response body
\* says: no sha256 field, the hash of the bytes received, or another hash.
W_PostOk(i, sha) ==
    /\ workers[i].pc = "post"
    /\ LET w == workers[i]
           p == w.path
           remoteHash == IF sha = "honest" THEN fs[p].mod ELSE 0 - 1
       IN  /\ Readable(p)
           /\ ~ctxDone
           /\ delivered' = [delivered EXCEPT ![p] = @ \cup {fs[p].mod}]
           /\ okSinceWrite' = [okSinceWrite EXCEPT ![p] = Min(@ + 1, 2)]
           /\ workers' = [workers EXCEPT ![i] =
                 [w EXCEPT !.pc = "success", !.posts = @ + 1,
                           !.resp = IF sha = "absent" THEN "absent"
                                    ELSE IF remoteHash = w.localHash THEN "match"
                                    ELSE "mismatch"]]
    /\ UNCHANGED <<env, fs, doneDir, stamped, fileLog, doneChan, semaphore, othersUnchanged>>

\* UploadFile: a transport error (the file cannot be read, the context is
\* cancelled, the network) or a status outside [200, 300).
W_PostFail(i) ==
    /\ workers[i].pc = "post"
    /\ \/ /\ ~Readable(workers[i].path) \/ ctxDone
          /\ UNCHANGED env
       \/ /\ env.fails > 0
          /\ env' = [env EXCEPT !.fails = @ - 1]
    /\ workers' = [workers EXCEPT ![i].pc = "backoff", ![i].posts = @ + 1]
    /\ UNCHANGED <<fs, doneDir, stamped, fileLog, delivered, okSinceWrite, doneChan, semaphore,
                   othersUnchanged>>

\* A retry loop that goes round once more.
W_RetryOnceMore(i) ==
    /\ workers[i].pc = "backoff"
    /\ workers[i].attempt + 1 < MaxAttempts + 1
    /\ workers' = [workers EXCEPT ![i].pc = "post", ![i].attempt = @ + 1]
    /\ UNCHANGED <<envVars, doneChan, semaphore, othersUnchanged>>

\* case <-time.After(2 * time.Second), and the loop goes round.
W_Retry(i) ==
    /\ workers[i].pc = "backoff"
    /\ workers[i].attempt + 1 < MaxAttempts
    /\ workers' = [workers EXCEPT ![i].pc = "post", ![i].attempt = @ + 1]
    /\ UNCHANGED <<envVars, doneChan, semaphore, othersUnchanged>>

\* After the last back-off: onError(filePath), which is db.IncrementError.
W_OnError(i) ==
    /\ workers[i].pc = "backoff"
    /\ workers[i].attempt + 1 >= MaxAttempts
    /\ fileLog' = IncrementError(fileLog, workers[i].path)
    /\ workers' = [workers EXCEPT ![i] = Returning([@ EXCEPT !.wrote = TRUE], "failed")]
    /\ UNCHANGED <<env, fs, doneDir, stamped, delivered, okSinceWrite, doneChan, semaphore,
                   othersUnchanged>>

\* A cancelled back-off that reports the failure before it returns.
W_CancelBackoffReported(i) ==
    /\ workers[i].pc = "backoff"
    /\ ctxDone
    /\ fileLog' = IncrementError(fileLog, workers[i].path)
    /\ workers' = [workers EXCEPT ![i] = Returning([@ EXCEPT !.wrote = TRUE], "cancel")]
    /\ UNCHANGED <<env, fs, doneDir, stamped, delivered, okSinceWrite, doneChan, semaphore,
                   othersUnchanged>>

\* case <-ctx.Done(): return   (inside the back-off)
W_CancelBackoff(i) ==
    /\ workers[i].pc = "backoff"
    /\ ctxDone
    /\ workers' = [workers EXCEPT ![i] = Returning(@, "cancel")]
    /\ UNCHANGED <<envVars, doneChan, semaphore, othersUnchanged>>

\* A success callback that records the mod time the file has when it runs.
CurrentModTime(w, p) == fs[p].mod

\* handleUpload passes info.ModTime().UnixNano(), the mod time of its first
\* os.Stat, as the modTime that onSuccess records.
RecordedModTime(w, p) == w.infoMod

\* An onSuccess callback that goes to the Done-Move without recording.
W_OnSuccessUnrecorded(i) ==
    /\ workers[i].pc = "success"
    /\ workers' = [workers EXCEPT ![i].pc = "move"]
    /\ UNCHANGED <<envVars, doneChan, semaphore, othersUnchanged>>

\* onSuccess: db.UpdateFileStatus(path, VERIFIED, hash, modTime, 0)
W_OnSuccess(i) ==
    /\ workers[i].pc = "success"
    /\ LET w == workers[i]
       IN  /\ fileLog' = UpdateFileStatus(fileLog, w.path, StatusVerified, w.localHash,
                                          RecordedModTime(w, w.path), 0)
           /\ workers' = [workers EXCEPT ![i].pc = "move", ![i].wrote = TRUE]
    /\ UNCHANGED <<env, fs, doneDir, stamped, delivered, okSinceWrite, doneChan, semaphore,
                   othersUnchanged>>

\* onSuccess: moveToDone(path, remote, logger)
W_Move(i) ==
    /\ workers[i].pc = "move"
    /\ MoveToDone(workers[i].path)
    /\ workers' = [workers EXCEPT ![i] = Returning(@, "success")]
    /\ UNCHANGED <<fileLog, delivered, okSinceWrite, doneChan, semaphore, othersUnchanged>>

\* defer: <-semaphore
W_Release(i) ==
    /\ workers[i].pc = "release"
    /\ semaphore' = semaphore - 1
    /\ workers' = [workers EXCEPT ![i].pc = "finish"]
    /\ UNCHANGED <<envVars, doneChan, othersUnchanged>>

\* defer: doneChan <- "FINISH:" + p, and the goroutine ends.
W_Finish(i) ==
    /\ workers[i].pc = "finish"
    /\ Len(doneChan) < DoneChanCap
    /\ doneChan' = Append(doneChan, Msg("FINISH", workers[i].path))
    /\ workers' = [workers EXCEPT ![i] = IdleWorker]
    /\ UNCHANGED <<envVars, semaphore, othersUnchanged>>

\* ------------------------------------------------------------ life cycle

\* signal.NotifyContext: SIGINT or SIGTERM cancels ctx.
Cancel ==
    /\ ~ctxDone
    /\ env.cancels > 0
    /\ env' = [env EXCEPT !.cancels = @ - 1]
    /\ ctxDone' = TRUE
    /\ UNCHANGED <<remote, fs, doneDir, stamped, fileLog, delivered, okSinceWrite, fsEvents,
                   scanTodo, eventChan, doneChan, orchVars, semaphore, workers,
                   orchExited, age>>

\* A new start that opens an empty file log.
RestartFresh ==
    /\ ctxDone
    /\ env.restarts > 0
    /\ env' = [env EXCEPT !.restarts = @ - 1]
    /\ ctxDone' = FALSE
    /\ orchExited' = FALSE
    /\ fsEvents' = {}
    /\ scanTodo' = {p \in AllPaths : fs[p].exists}
    /\ eventChan' = <<>>
    /\ doneChan' = <<>>
    /\ pendingStates' = [p \in AllPaths |-> NoFileState]
    /\ activeProcessing' = {}
    /\ orphanTimers' = [p \in AllPaths |-> <<>>]
    /\ closures' = [p \in AllPaths |-> 0]
    /\ semaphore' = 0
    /\ workers' = [i \in 1..MaxWorkers |-> IdleWorker]
    /\ age' = [p \in AllPaths |-> NoAge]
    /\ fileLog' = [p \in AllPaths |-> NoRecord]
    /\ UNCHANGED <<remote, fs, doneDir, stamped, delivered, okSinceWrite>>

\* RunAgent returns after the signal and the process ends with whatever its
\* goroutines were doing; the agent is started again.  The directory, .done,
\* the file log and the server keep what they have.
Restart ==
    /\ ctxDone
    /\ env.restarts > 0
    /\ env' = [env EXCEPT !.restarts = @ - 1]
    /\ ctxDone' = FALSE
    /\ orchExited' = FALSE
    /\ fsEvents' = {}
    /\ scanTodo' = {p \in AllPaths : fs[p].exists}
    /\ eventChan' = <<>>
    /\ doneChan' = <<>>
    /\ pendingStates' = [p \in AllPaths |-> NoFileState]
    /\ activeProcessing' = {}
    /\ orphanTimers' = [p \in AllPaths |-> <<>>]
    /\ closures' = [p \in AllPaths |-> 0]
    /\ semaphore' = 0
    /\ workers' = [i \in 1..MaxWorkers |-> IdleWorker]
    /\ age' = [p \in AllPaths |-> NoAge]
    /\ UNCHANGED <<remote, fs, doneDir, stamped, fileLog, delivered, okSinceWrite>>

\* ------------------------------------------------- file log, called directly

AllStatuses == {StatusPending, StatusUploaded, StatusVerified, StatusCorrupt, StatusFailed}

pipelineVars == <<remote, fs, doneDir, stamped, delivered, okSinceWrite, fsEvents, scanTodo,
                  eventChan, doneChan, orchVars, semaphore, workers, ctxDone,
                  orchExited, age>>

\* db.UpdateFileStatus(path, status, hash, modTime, size)
DbUpdateFileStatus(p, status, hash, modTime, size) ==
    /\ fileLog' = UpdateFileStatus(fileLog, p, status, hash, modTime, size)
    /\ UNCHANGED <<env, pipelineVars>>

\* db.IncrementError(path)
DbIncrementError(p) ==
    /\ fileLog[p].ec < MaxIncrements
    /\ fileLog' = IncrementError(fileLog, p)
    /\ UNCHANGED <<env, pipelineVars>>

\* db.MarkCorrupt(path)
DbMarkCorrupt(p) ==
    /\ fileLog' = MarkCorrupt(fileLog, p)
    /\ UNCHANGED <<env, pipelineVars>>

\* The reset-history command: initDB, then resetHistory(resetPath); the
\* --path flag defaults to "".
ResetCmd(target) ==
    /\ env.resets > 0
    /\ env' = [env EXCEPT !.resets = @ - 1]
    /\ fileLog' = ResetHistory(fileLog, target)
    /\ UNCHANGED pipelineVars


\* ------------------------------------------------------------ specification

\* config.RemoteConfig; the duration fields as ParseDuration reads them.
Remote(limit, threshold, settling, check, timeout, nofs) ==
    [ConcurrencyLimit |-> limit, StabilityThreshold |-> threshold,
     SettlingDelay |-> settling, CheckInterval |-> check,
     StabilityTimeout |-> timeout, DisableFsnotify |-> nofs]

\* Rows an earlier run of the agent can have left for a file whose bytes now
\* have mod time 1: none, delivered as it is now, delivered before its last
\* write, and that with failed cycles counted since.
Row(status, m, ec) ==
    [present |-> TRUE, status |-> status, hash |-> m, mod |-> m, size |-> 0, ec |-> ec]

Budget(wa, wb, fails, renameFails, cancels, restarts) ==
    [writes |-> [p \in AllPaths |-> IF p = "a" THEN wa ELSE wb],
     fails |-> fails, renameFails |-> renameFails, cancels |-> cancels,
     restarts |-> restarts, resets |-> 0, removes |-> 0]

\* The same with n writes to the entry q.
WithWrites(budget, q, n) == [budget EXCEPT !.writes[q] = n]

\* The same with n runs of the reset-history command.
WithResets(budget, n) == [budget EXCEPT !.resets = n]

\* The state when WatchRemote starts: the directory holds the files in
\* present, each written at mod time 1, and the file log holds a row of rows
\* for path a.
InitFiles(remotes, budgets, rows, presents) ==
    /\ remote \in remotes
    /\ env \in budgets
    /\ \E present \in presents :
          /\ fs = [p \in AllPaths |->
                     [exists |-> p \in present, size |-> 1, mod |-> 1, locked |-> FALSE]]
          /\ scanTodo = present
    /\ \E row \in rows : fileLog = [p \in AllPaths |-> IF p = "a" THEN row ELSE NoRecord]
    /\ delivered = [p \in AllPaths |->
                      IF fileLog[p].present /\ fileLog[p].status \in {"UPLOADED", "VERIFIED"}
                      THEN {fileLog[p].hash} ELSE {}]
    /\ okSinceWrite = [p \in AllPaths |-> IF 1 \in delivered[p] THEN 1 ELSE 0]
    /\ fsEvents = {}
    /\ eventChan = <<>>
    /\ doneChan = <<>>
    /\ pendingStates = [p \in AllPaths |-> NoFileState]
    /\ activeProcessing = {}
    /\ orphanTimers = [p \in AllPaths |-> <<>>]
    /\ closures = [p \in AllPaths |-> 0]
    /\ semaphore = 0
    /\ workers = [i \in 1..MaxWorkers |-> IdleWorker]
    /\ ctxDone = FALSE
    /\ orchExited = FALSE
    /\ age = [p \in AllPaths |-> NoAge]

\* .done is empty, or not there yet.
InitWith(remotes, budgets, rows, presents) ==
    /\ InitFiles(remotes, budgets, rows, presents)
    /\ doneDir = [p \in AllPaths |-> {}]
    /\ stamped = [p \in AllPaths |-> NoBytes]

\* .done holds the file that an earlier run delivered and moved from path a
\* (its row is there), and a file of that name is in the directory again.
InitArchived(remotes, budgets, presents) ==
    /\ InitFiles(remotes, budgets, {Row("VERIFIED", 0, 0)}, presents)
    /\ doneDir = [p \in AllPaths |-> IF p = "a" THEN {0} ELSE {}]
    /\ stamped = [p \in AllPaths |-> NoBytes]

\* The configurations: one slot, the default limit (limit 0), polling only,
\* and a stability timeout shorter than one check interval.
Plain == Remote(1, 2, 1, 1, 2, FALSE)
Wide == Remote(0, 2, 1, 1, 2, FALSE)
PollOnly == Remote(1, 2, 1, 1, 2, TRUE)
Hasty == Remote(1, 2, 1, 2, 1, FALSE)
\* settling_delay "0s", and the other fields left out of the configuration:
\* no count, no duration text.
ZeroSettling == Remote(0, 0, 0, NotADuration, NotADuration, FALSE)
\* settling_delay left out as well.
Unset == Remote(0, 0, NotADuration, NotADuration, NotADuration, FALSE)

\* The runs of the agent that are explored: a file that is written once more
\* while the agent handles it, and a rename that is refused; a server and a
\* host that fail; a shutdown and a new start; the rows of an earlier run; two
\* files at once; a writer racing a short stability timeout; a directory
\* that also holds a subdirectory, .done, and a dot file that is written.
Init ==
    \/ InitWith({Plain}, {Budget(1, 0, 0, 1, 0, 0)}, {NoRecord}, {{"a"}})
    \/ InitWith({Plain}, {Budget(0, 0, 3, 1, 0, 0)}, {NoRecord, Row("VERIFIED", 0, 0)}, {{"a"}})
    \/ InitWith({Plain, PollOnly}, {Budget(0, 0, 0, 0, 1, 1)}, {NoRecord}, {{"a"}})
    \/ InitWith({Plain}, {Budget(0, 0, 0, 1, 0, 0)},
                {Row("VERIFIED", 1, 0), Row("UPLOADED", 1, 0), Row("UPLOADED", 0, 10),
                 Row("VERIFIED", 0, 11), Row("VERIFIED", 1, 11), Row("CORRUPT", 1, 1)},
                {{"a"}})
    \/ InitWith({Plain, Wide}, {Budget(0, 0, 0, 0, 0, 0)}, {NoRecord}, {{"a", "b"}})
    \/ InitWith({Hasty}, {Budget(1, 0, 0, 0, 0, 0)}, {NoRecord}, {{"a"}, {}})
    \/ InitWith({Plain, PollOnly}, {WithWrites(Budget(0, 0, 0, 0, 0, 0), ".tmp", 1)},
                {NoRecord}, {{"a", "sub", ".done"}, {".tmp", ".done"}})

Environment ==
    \/ \E p \in AllPaths, s \in Sizes, lk \in BOOLEAN : Write(p, s, lk)
    \/ \E p \in AllPaths : Unlock(p)
    \/ Tick
    \/ SecondPasses

Shutdown ==
    \/ Cancel
    \/ Restart
    \/ OrchExit
    \/ \E i \in 1..MaxWorkers : W_CancelSleep(i)
    \/ \E i \in 1..MaxWorkers : W_CancelBackoff(i)

Sources ==
    \/ \E p \in AllPaths : PollProbe(p)
    \/ \E p \in AllPaths : NotifyProbe(p)
    \/ \E p \in AllPaths : ScanProbe(p)

Orchestrator ==
    \/ OrchEvent
    \/ OrchStart
    \/ OrchFinish
    \/ \E p \in AllPaths : TimerFire(p)
    \/ \E p \in AllPaths : OrphanFire(p)
    \/ \E p \in AllPaths : ClosureSend(p)

Worker(i) ==
    \/ W_Acquire(i)
    \/ W_Start(i)
    \/ W_HealMove(i)
    \/ W_Loop(i)
    \/ W_Probe(i)
    \/ W_Hash(i)
    \/ \E sha \in {"absent", "honest", "other"} : W_PostOk(i, sha)
    \/ W_PostFail(i)
    \/ W_Retry(i)
    \/ W_OnError(i)
    \/ W_OnSuccess(i)
    \/ W_Move(i)
    \/ W_Release(i)
    \/ W_Finish(i)

\* The pipeline as long as no cancellation signal is given.
NextRunning ==
    \/ Environment
    \/ Sources
    \/ Orchestrator
    \/ \E i \in 1..MaxWorkers : Worker(i)

Next ==
    \/ NextRunning
    \/ Shutdown

Spec == Init /\ [][Next]_vars

\* A pipeline that is never cancelled, under fair scheduling: every goroutine
\* that can take a step takes one, a select whose channel stays ready is
\* served, the clock advances, and the poller's ticker keeps firing.
InitLive ==
    \/ InitWith({Plain, PollOnly}, {Budget(0, 0, 0, 0, 0, 0)}, {NoRecord}, {{"a"}})
    \/ InitWith({PollOnly}, {Budget(1, 0, 0, 0, 0, 0)}, {NoRecord}, {{"a"}, {}})
    \/ InitWith({Plain}, {Budget(1, 0, 0, 0, 0, 0)}, {NoRecord}, {{}})
    \/ InitWith({Plain}, {Budget(0, 0, 3, 1, 0, 0)},
                {NoRecord, Row("VERIFIED", 0, 0), Row("UPLOADED", 0, 10),
                 Row("VERIFIED", 0, 11)}, {{"a"}})
    \/ InitWith({Hasty}, {Budget(0, 0, 0, 0, 0, 0)}, {NoRecord}, {{"a"}})

Fairness ==
    /\ WF_vars(Tick)
    /\ WF_vars(OrchEvent)
    /\ WF_vars(OrchStart)
    /\ WF_vars(OrchFinish)
    /\ \A p \in AllPaths :
          /\ WF_vars(PollProbe(p))
          /\ WF_vars(NotifyProbe(p))
          /\ WF_vars(ScanProbe(p))
          /\ WF_vars(TimerFire(p))
          /\ WF_vars(OrphanFire(p))
          /\ WF_vars(ClosureSend(p))
    /\ \A i \in 1..MaxWorkers : WF_vars(Worker(i))

LiveSpec == InitLive /\ [][NextRunning]_vars /\ Fairness

\* The same with n removals of a file by another process.
WithRemoves(budget, n) == [budget EXCEPT !.removes = n]

\* The same with n cancellation signals.
WithCancels(budget, n) == [budget EXCEPT !.cancels = n]

\* A pipeline that receives the cancellation signal once, at any moment, and
\* is not started again.  Scheduling is fair as in LiveSpec; a select whose
\* ctx.Done case is ready again and again takes it in the end (Go chooses
\* among the ready cases at random).
InitStop ==
    \/ InitWith({Plain, PollOnly}, {WithCancels(Budget(0, 0, 0, 0, 0, 0), 1)},
                {NoRecord}, {{"a"}})
    \/ InitWith({Plain}, {WithCancels(Budget(1, 0, 0, 0, 0, 0), 1)}, {NoRecord}, {{}})
    \/ InitWith({PollOnly}, {WithCancels(Budget(1, 0, 0, 0, 0, 0), 1)}, {NoRecord}, {{"a"}})
    \/ InitWith({Plain}, {WithCancels(Budget(0, 0, 3, 0, 0, 0), 1)},
                {NoRecord, Row("VERIFIED", 1, 0)}, {{"a"}})

NextStop ==
    \/ NextRunning
    \/ Cancel
    \/ OrchExit
    \/ \E i \in 1..MaxWorkers : W_CancelSleep(i)
    \/ \E i \in 1..MaxWorkers : W_CancelBackoff(i)

FairnessStop ==
    /\ Fairness
    /\ WF_vars(OrchExit)
    /\ \A i \in 1..MaxWorkers :
          /\ SF_vars(W_CancelSleep(i))
          /\ SF_vars(W_CancelBackoff(i))

StopSpec == InitStop /\ [][NextStop]_vars /\ FairnessStop

\* The pipeline under configurations that leave fields out or set them to
\* zero, beside the configurations of Spec.
InitConfig ==
    \/ Init
    \/ InitWith({ZeroSettling, Unset}, {Budget(0, 0, 0, 0, 0, 0)}, {NoRecord}, {{"a"}})

ConfigSpec == InitConfig /\ [][Next]_vars

\* The pipeline in a directory whose files another process may also take
\* away and put back while the agent handles them.
InitIo ==
    \/ Init
    \/ InitWith({PollOnly}, {WithRemoves(Budget(1, 0, 0, 0, 0, 0), 1)}, {NoRecord}, {{"a"}})

NextIo ==
    \/ Next
    \/ \E p \in AllPaths : Remove(p)

IoSpec == InitIo /\ [][NextIo]_vars

\* The pipeline with a producer that puts a file of the same name into the
\* directory again and again.
InitDone ==
    \/ Init
    \/ InitArchived({PollOnly}, {Budget(1, 0, 0, 0, 0, 0)}, {{"a"}})

DoneSpec == InitDone /\ [][Next]_vars

\* The agent together with the reset-history command, which an operator may
\* run at any moment: while the agent runs, or between two runs.
InitAdmin ==
    \/ Init
    \/ InitWith({Plain}, {WithResets(Budget(0, 0, 3, 0, 1, 1), 1)},
                {NoRecord, Row("VERIFIED", 0, 0)}, {{"a"}})

NextAdmin ==
    \/ Next
    \/ \E target \in DbPaths \cup {""} : ResetCmd(target)

AdminSpec == InitAdmin /\ [][NextAdmin]_vars

\* The file log on its own: an empty table, and its functions called in any
\* order with any arguments.
InitDb == InitWith({Plain}, {WithResets(Budget(0, 0, 0, 0, 0, 0), 2)}, {NoRecord}, {{}})

NextDb ==
    \/ \E p \in DbPaths, status \in AllStatuses, hash \in DbHashes,
          modTime \in DbModTimes, size \in DbSizes :
             DbUpdateFileStatus(p, status, hash, modTime, size)
    \/ \E p \in DbPaths : DbIncrementError(p)
    \/ \E p \in DbPaths : DbMarkCorrupt(p)
    \/ \E target \in DbPaths \cup {""} : ResetCmd(target)

DbSpec == InitDb /\ [][NextDb]_vars


\* ------------------------------------------------------------------ claims

Running(p) == {i \in 1..MaxWorkers : workers[i].pc /= "idle" /\ workers[i].path = p}

Holding == {i \in 1..MaxWorkers :
               workers[i].pc \notin {"idle", "acquire", "finish"}}

Delivered(p) ==
    /\ fileLog[p].present
    /\ fileLog[p].status \in {"UPLOADED", "VERIFIED"}
    /\ fileLog[p].mod = fs[p].mod

\* C1 (at most one active): for every path, at most one worker goroutine that
\* START dispatched has not yet sent its FINISH.
C1_AtMostOneActive == \A p \in AllPaths : Cardinality(Running(p)) <= 1

\* C2 (idempotent delivery): the server never sees a second 2xx upload of a
\* path whose mod time has not changed since the previous 2xx upload.
C2_IdempotentDelivery == \A p \in AllPaths : okSinceWrite[p] <= 1

\* From here on nothing disturbs p: no write is left, no writer holds it, the
\* server answers 2xx, renames succeed, and no cycle of p is waiting after a
\* refused POST.
Settled(p) ==
    /\ fs[p].exists
    /\ ~fs[p].locked
    /\ env.writes[p] = 0
    /\ env.fails = 0
    /\ env.renameFails = 0
    /\ \A i \in Running(p) : workers[i].pc /= "backoff"
    /\ GetFileRecord(p).ec <= MaxErrorCount

Archived(p) ==
    /\ ~fs[p].exists
    /\ fs[p].mod \in doneDir[p]
    /\ fs[p].mod \in delivered[p]
    /\ fileLog[p].present
    /\ fileLog[p].status = StatusVerified

\* C3 (eventual delivery): a file that is left alone from some point
\* on, with at most 10 errors counted, is eventually POSTed, recorded as
\* VERIFIED and moved to .done.
C3_EventualDelivery == \A p \in AllPaths : Settled(p) ~> Archived(p)

\* C4 (bounded concurrency): the workers that hold a semaphore slot are never
\* more than concurrency_limit, or than 5 when that is not positive.
C4_BoundedConcurrency ==
    /\ Cardinality(Holding) <= (IF remote.ConcurrencyLimit <= 0 THEN 5
                                ELSE remote.ConcurrencyLimit)
    /\ semaphore = Cardinality(Holding)

\* C4 witness: every slot is taken and a dispatched worker waits for one.
C4_Witness ==
    /\ remote.ConcurrencyLimit > 0
    /\ Cardinality(Holding) = remote.ConcurrencyLimit
    /\ \E i \in 1..MaxWorkers : workers[i].pc = "acquire"
    /\ Cardinality(activeProcessing) > remote.ConcurrencyLimit

\* C5 (settling minimum): a worker is about to POST p only when at least
\* settling_delay + stability_threshold x check_interval ticks have passed
\* since the orchestrator last stored a new (size, mod_time) for p.
C5_SettlingMinimum ==
    \A i \in 1..MaxWorkers :
        workers[i].pc = "post" =>
            age[workers[i].path] >= remote.SettlingDelay
                                     + remote.StabilityThreshold * remote.CheckInterval

\* C6 (event coalescing): when the orchestrator takes an event for a Pending
\* path whose size and mod time equal the stored pair, the fileState, its
\* timer, every other timer, both maps, doneChan and the workers stay as
\* they are.
RedundantEvent ==
    /\ ~orchExited
    /\ eventChan /= <<>>
    /\ pendingStates[Head(eventChan).path].exists
    /\ Head(eventChan).size = pendingStates[Head(eventChan).path].lastSize
    /\ Head(eventChan).mod = pendingStates[Head(eventChan).path].lastMod

C6_EventCoalescing ==
    [][(RedundantEvent /\ eventChan' = Tail(eventChan) /\ env' = env)
          => UNCHANGED <<pendingStates, activeProcessing, orphanTimers, closures,
                         doneChan, workers, age>>]_vars

\* C6 witness: a repeated event is at the head of the queue while the settling
\* timer of its path has already run for a tick.
C6_Witness ==
    /\ RedundantEvent
    /\ pendingStates[Head(eventChan).path].timer = 0
    /\ Len(eventChan) = EventChanCap

\* C7 (no-progress bound): a worker whose every probe so far saw another size
\* has not uploaded or written anything, and does not begin another sleep once
\* stability_timeout has passed since the loop started.
C7_NoProgressBound ==
    \A i \in 1..MaxWorkers :
        workers[i].unstable =>
            /\ workers[i].posts = 0
            /\ ~workers[i].wrote
            /\ workers[i].stableCount = 0
            /\ workers[i].pc \in {"loop", "sleep", "release", "finish"}
            /\ workers[i].pc = "sleep" =>
                  workers[i].elapsed + workers[i].sleep
                      <= remote.StabilityTimeout + remote.CheckInterval
            /\ workers[i].pc \in {"release", "finish"} =>
                  workers[i].exit \in {"timeout", "stat", "cancel"}

\* C7 witness: the cycle of a file that changed size at every probe was
\* abandoned by the stability timeout.
C7_Witness ==
    \E i \in 1..MaxWorkers :
        /\ workers[i].unstable
        /\ workers[i].pc = "release"
        /\ workers[i].exit = "timeout"

\* C8 as stated (self-heal): a cycle whose first stat found a row UPLOADED or VERIFIED at
\* the file's mod time makes no POST and no file-log write; it goes to the
\* Done-Move and returns.
C8_SelfHeal ==
    \A i \in 1..MaxWorkers :
        workers[i].matched =>
            /\ workers[i].posts = 0
            /\ ~workers[i].wrote
            /\ workers[i].pc \in {"healmove", "release", "finish"}
            /\ workers[i].pc \in {"release", "finish"} => workers[i].exit = "healed"

\* C8 as amended: a cycle that reads an error count of at most 10 and a row
\* UPLOADED or VERIFIED at the file's mod time goes to the Done-Move without
\* touching the file log, and after the move it returns: no POST, no write.
C8_SelfHealWithinErrors ==
    [][\A i \in 1..MaxWorkers :
          /\ (/\ workers[i].pc = "start"
              /\ workers'[i].pc \notin {"start", "idle"}
              /\ fs[workers[i].path].exists
              /\ Delivered(workers[i].path)
              /\ GetFileRecord(workers[i].path).ec <= 10) =>
                 /\ workers'[i].pc = "healmove"
                 /\ UNCHANGED <<fs, doneDir, fileLog, delivered>>
          /\ (workers[i].pc = "healmove" /\ workers'[i].pc \notin {"healmove", "idle"}) =>
                 /\ workers'[i].pc = "release"
                 /\ workers'[i].exit = "healed"
                 /\ workers'[i].posts = 0
                 /\ ~workers'[i].wrote
                 /\ UNCHANGED <<fileLog, delivered>>]_vars

\* C8 witness: the file an earlier run had delivered was moved to .done by a
\* cycle that did not upload it.
C8_Witness ==
    \E i \in 1..MaxWorkers :
        /\ workers[i].matched
        /\ workers[i].pc = "release"
        /\ workers[i].posts = 0
        /\ ~fs[workers[i].path].exists
        /\ fs[workers[i].path].mod \in doneDir[workers[i].path]

\* C9 (delivered epoch): when p's row is UPLOADED or VERIFIED at the mod time
\* p has on disk, the bytes now at p were received by the server with a 2xx.
C9_DeliveredEpoch ==
    \A p \in AllPaths : (fs[p].exists /\ Delivered(p)) => fs[p].mod \in delivered[p]

\* C9 witness: a worker has just recorded its upload and the file is still in
\* place with the recorded mod time.
C9_Witness ==
    \E i \in 1..MaxWorkers :
        /\ workers[i].pc = "move"
        /\ fs[workers[i].path].exists
        /\ Delivered(workers[i].path)

\* C10 (integrity handshake): after a 2xx response whose sha256 differs from
\* the local hash, the row of the path is CORRUPT, and the file is not moved.
C10_IntegrityHandshake ==
    \A i \in 1..MaxWorkers :
        (workers[i].resp = "mismatch" /\ workers[i].pc /= "success") =>
            /\ fileLog[workers[i].path].present
            /\ fileLog[workers[i].path].status = StatusCorrupt
            /\ workers[i].exit /= "success"


\* C11 (post-upload success): the step a worker takes after its 2xx writes the
\* row (VERIFIED, the hash it computed, the mod time of its first stat, error
\* count 0) and touches neither the file nor .done; the Done-Move is the step
\* after it, taken by a worker that has written its row, and writes no row.
C11_PostUploadSuccess ==
    [][\A i \in 1..MaxWorkers :
          /\ (workers[i].pc = "success" /\ workers'[i].pc = "move") =>
                /\ GetFileRecord(workers[i].path)' =
                       [status |-> StatusVerified, mod |-> workers[i].infoMod,
                        hash |-> workers[i].localHash, ec |-> 0]
                /\ UNCHANGED <<fs, doneDir>>
          /\ (workers[i].pc = "move" /\ workers'[i].pc = "release") =>
                /\ workers[i].wrote
                /\ workers[i].posts > 0
                /\ UNCHANGED fileLog]_vars

\* C11 witness: a freshly uploaded file has been moved to .done by the worker
\* that recorded it as VERIFIED.
C11_Witness ==
    \E i \in 1..MaxWorkers :
        /\ workers[i].pc = "release"
        /\ workers[i].exit = "success"
        /\ workers[i].wrote
        /\ ~fs[workers[i].path].exists
        /\ fs[workers[i].path].mod \in doneDir[workers[i].path]
        /\ fileLog[workers[i].path].status = StatusVerified
        /\ fileLog[workers[i].path].hash /= 0

\* The step of worker i that ends a cycle whose attempts all failed.
FailedCycle(i) ==
    /\ workers[i].pc = "backoff"
    /\ workers'[i].pc = "release"
    /\ workers'[i].exit = "failed"

\* C12 (upload failure): the step that ends a cycle whose attempts
\* all failed increments the error count that get_record returns for the path,
\* keeps status, hash and mod time, and leaves the file and .done alone.
C12_UploadFailure ==
    [][\A i \in 1..MaxWorkers :
          FailedCycle(i) =>
              /\ GetFileRecord(workers[i].path)' =
                     [GetFileRecord(workers[i].path) EXCEPT !.ec = @ + 1]
              /\ UNCHANGED <<fs, doneDir>>]_vars

\* Worker i has just left the head of handleUpload by the upload branch.
TookUploadBranch(i) ==
    /\ workers[i].pc = "loop"
    /\ workers[i].unstable
    /\ workers[i].elapsed = 0
    /\ workers[i].stableCount = 0

\* C13 (move failure recovery): a cycle that is alone on its path and finds
\* the file still in place, its row VERIFIED and its bytes delivered with a
\* 2xx - the earlier rename into .done did not happen - does not take the
\* upload branch.
C13_MoveFailureRecovery ==
    \A i \in 1..MaxWorkers :
        (TookUploadBranch(i) /\ Cardinality(Running(workers[i].path)) = 1) =>
            ~ /\ fileLog[workers[i].path].present
              /\ fileLog[workers[i].path].status = StatusVerified
              /\ workers[i].infoMod \in delivered[workers[i].path]


\* C14 (too many errors): the first step of a cycle that stats the file and
\* reads an error count above 10 returns at once - no probe, no POST, no move,
\* no write to the file log - also when the row matches the file; with an
\* error count of 10 or less it goes on to the self-heal move or to the loop.
C14_TooManyErrors ==
    [][\A i \in 1..MaxWorkers :
          (/\ workers[i].pc = "start"
           /\ workers'[i].pc \notin {"start", "idle"}
           /\ fs[workers[i].path].exists) =>
              /\ GetFileRecord(workers[i].path).ec > 10 =>
                    /\ workers'[i].pc = "release"
                    /\ workers'[i].exit = "errors"
                    /\ workers'[i].posts = 0
                    /\ ~workers'[i].wrote
                    /\ UNCHANGED <<fs, doneDir, fileLog, delivered>>
              /\ GetFileRecord(workers[i].path).ec <= 10 =>
                    workers'[i].pc \in {"loop", "healmove"}]_vars

\* C14 witness: a cycle was abandoned for its eleven errors although the row
\* is VERIFIED at the mod time of the file, which is still in place.
C14_Witness ==
    \E i \in 1..MaxWorkers :
        /\ workers[i].pc = "release"
        /\ workers[i].exit = "errors"
        /\ workers[i].matched
        /\ fileLog[workers[i].path].ec = 11
        /\ fs[workers[i].path].exists
        /\ doneDir[workers[i].path] = {}

\* C15 (error count monotonicity): every cycle whose attempts all failed
\* raises the error count get_record returns for its path by exactly one,
\* nothing else raises it, and it falls only to 0, by the row that a worker
\* writes after a 2xx.
C15_ErrorCountMonotonic ==
    [][\A p \in AllPaths :
          /\ \A i \in 1..MaxWorkers :
                (FailedCycle(i) /\ workers[i].path = p) =>
                    GetFileRecord(p)'.ec = GetFileRecord(p).ec + 1
          /\ GetFileRecord(p)'.ec > GetFileRecord(p).ec =>
                \E i \in 1..MaxWorkers : FailedCycle(i) /\ workers[i].path = p
          /\ GetFileRecord(p)'.ec < GetFileRecord(p).ec =>
                /\ GetFileRecord(p)'.ec = 0
                /\ \E i \in 1..MaxWorkers :
                      /\ workers[i].path = p
                      /\ workers[i].pc = "success"
                      /\ workers'[i].pc = "move"]_vars

EmptyTuple == [status |-> "", mod |-> 0, hash |-> 0, ec |-> 0]

\* C16 (file-log round trip): whatever row the path had, after
\* update_status(p, VERIFIED, h, m, s) get_record(p) returns (VERIFIED, m, h, 0)
\* and the table holds the row of p.
C16_FileLogRoundTrip ==
    [][\A p \in DbPaths, h \in DbHashes, m \in DbModTimes, sz \in DbSizes :
          fileLog' = UpdateFileStatus(fileLog, p, StatusVerified, h, m, sz) =>
              /\ GetFileRecord(p)' = [status |-> StatusVerified, mod |-> m, hash |-> h, ec |-> 0]
              /\ fileLog'[p].present
              /\ DOMAIN fileLog' = DOMAIN fileLog]_vars

\* C16 witness: a VERIFIED row with error count 0 beside a row whose error
\* count was raised to the bound.
C16_Witness ==
    /\ fileLog["a"] = [present |-> TRUE, status |-> StatusVerified, hash |-> 2,
                       mod |-> 2, size |-> 1, ec |-> 0]
    /\ fileLog["b"].ec = MaxIncrements
    /\ env.resets = 2

\* C17 (reset_history): reset_history("") leaves get_record empty for every
\* path; reset_history(t) empties get_record(t) and leaves every other row.
C17_ResetHistory ==
    [][\A target \in DbPaths \cup {""} :
          (env.resets' < env.resets /\ fileLog' = ResetHistory(fileLog, target)) =>
              IF target = ""
              THEN \A p \in AllPaths : GetFileRecord(p)' = EmptyTuple
              ELSE /\ GetFileRecord(target)' = EmptyTuple
                   /\ \A q \in AllPaths \ {target} : fileLog'[q] = fileLog[q]]_vars

\* C17 witness: after one reset the row of a is gone and b's row, with its
\* error count, is there.
C17_Witness ==
    /\ env.resets = 1
    /\ ~fileLog["a"].present
    /\ fileLog["b"].present
    /\ fileLog["b"].ec = MaxIncrements

\* C18 (increment_error): on a path without a row it leaves the file log as
\* it is and get_record empty; on a row it adds one to error_count and keeps
\* status, hash and mod time, and every other row.
C18_IncrementError ==
    [][\A p \in DbPaths :
          fileLog' = IncrementError(fileLog, p) =>
              /\ \A q \in AllPaths \ {p} : fileLog'[q] = fileLog[q]
              /\ IF fileLog[p].present
                 THEN /\ fileLog'[p].present
                      /\ GetFileRecord(p)' = [GetFileRecord(p) EXCEPT !.ec = @ + 1]
                 ELSE /\ UNCHANGED fileLog
                      /\ GetFileRecord(p)' = EmptyTuple]_vars

\* C18 witness: a row whose error count was raised twice keeps its status,
\* and the other path has no row.
C18_Witness ==
    /\ fileLog["a"].present
    /\ fileLog["a"].status = StatusUploaded
    /\ fileLog["a"].ec = 2
    /\ ~fileLog["b"].present

\* C19 (record persistence): a row disappears only in a step of the
\* reset-history command, and a path without a row gets one only in the
\* step in which a worker records its 2xx upload.
C19_RecordPersistence ==
    [][\A p \in AllPaths :
          /\ (fileLog[p].present /\ ~fileLog'[p].present) => env.resets' < env.resets
          /\ (~fileLog[p].present /\ fileLog'[p].present) =>
                \E i \in 1..MaxWorkers :
                    /\ workers[i].path = p
                    /\ workers[i].pc = "success"
                    /\ workers[i].resp /= "none"
                    /\ workers'[i].pc = "move"]_vars

\* C19 witness: the row of a, which counted a failed cycle, is there after
\* the agent was stopped and started again, and no reset was run.
C19_Witness ==
    /\ env.resets = 1
    /\ env.restarts = 0
    /\ ~ctxDone
    /\ fileLog["a"].present
    /\ fileLog["a"].ec = 1

\* C20 (eligibility filter): every event put on eventChan is for an entry
\* that is in the watched directory at that moment, is no directory and has
\* no dot name, and carries its size and mod time; and a directory or a dot
\* name never has a fileState, a timer, a START, a worker or an upload.
C20_EligibilityFilter ==
    /\ [](\A p \in Dirs \cup Hidden :
             /\ ~pendingStates[p].exists
             /\ orphanTimers[p] = <<>>
             /\ closures[p] = 0
             /\ p \notin activeProcessing
             /\ Running(p) = {}
             /\ delivered[p] = {}
             /\ doneDir[p] = {}
             /\ \A k \in 1..Len(eventChan) : eventChan[k].path /= p
             /\ \A k \in 1..Len(doneChan) : doneChan[k].path /= p)
    /\ [][Len(eventChan') > Len(eventChan) =>
             /\ fs[eventChan'[Len(eventChan')].path].exists
             /\ eventChan'[Len(eventChan')].path \notin Dirs \cup Hidden
             /\ eventChan'[Len(eventChan')] =
                    [path |-> eventChan'[Len(eventChan')].path,
                     size |-> fs[eventChan'[Len(eventChan')].path].size,
                     mod |-> fs[eventChan'[Len(eventChan')].path].mod]]_vars

\* C20 witness: the notifier has read the event of a dot file written during
\* the run, the initial scan has passed the subdirectory and .done, and the
\* file a has been moved into .done.
C20_Witness ==
    /\ ~remote.DisableFsnotify
    /\ fs[".tmp"].exists
    /\ env.writes[".tmp"] = 0
    /\ fs[".tmp"].mod = 2
    /\ ".tmp" \notin fsEvents
    /\ fs["sub"].exists
    /\ fs[".done"].exists
    /\ scanTodo = {}
    /\ ~fs["a"].exists
    /\ doneDir["a"] = {1}

\* What has ended when the pipeline has shut down: the orchestrator has
\* returned, the initial scan is through (WatchRemote is at <-ctx.Done()),
\* and no worker goroutine is left.
Terminated ==
    /\ orchExited
    /\ scanTodo = {}
    /\ \A i \in 1..MaxWorkers : workers[i].pc = "idle"

\* C21 (shutdown termination): once the cancellation signal is given, the
\* orchestrator, the initial scan of WatchRemote and every worker goroutine
\* eventually end.
C21_ShutdownTermination == ctxDone ~> Terminated


\* What the configuration reference promises for a duration text and for a
\* count: a text that is zero or does not parse, and a count that is not
\* positive, stand for the default.
DocumentedDuration(text, default) ==
    IF text = NotADuration \/ text = 0 THEN default ELSE text

DocumentedCount(n, default) == IF n <= 0 THEN default ELSE n

\* C22 (default fallback): the settling timer the orchestrator starts runs
\* for settling_delay, or 5s (one tick) when that is zero or does not parse;
\* a worker sleeps check_interval between probes, or 5s; it gives up only
\* after stability_timeout, or 30m (360 ticks); it leaves the loop at
\* stability_threshold stable probes, or 2; and it takes a slot only while
\* fewer than concurrency_limit, or 5, are taken.
C22_DefaultFallback ==
    [][/\ \A p \in AllPaths :
             (eventChan /= <<>> /\ eventChan' = Tail(eventChan)
                 /\ pendingStates'[p] /= pendingStates[p]) =>
                    pendingStates'[p].timer = DocumentedDuration(remote.SettlingDelay, 1)
       /\ \A i \in 1..MaxWorkers :
             /\ (workers[i].pc = "loop" /\ workers'[i].pc = "sleep") =>
                    /\ workers'[i].sleep = DocumentedDuration(remote.CheckInterval, 1)
                    /\ workers[i].elapsed <= DocumentedDuration(remote.StabilityTimeout, 360)
                    /\ workers[i].stableCount < DocumentedCount(remote.StabilityThreshold, 2)
             /\ (workers[i].pc = "loop" /\ workers'[i].pc = "release") =>
                    workers[i].elapsed > DocumentedDuration(remote.StabilityTimeout, 360)
             /\ (workers[i].pc = "loop" /\ workers'[i].pc = "hash") =>
                    workers[i].stableCount >= DocumentedCount(remote.StabilityThreshold, 2)
             /\ (workers[i].pc = "acquire" /\ workers'[i].pc = "start") =>
                    semaphore < DocumentedCount(remote.ConcurrencyLimit, 5)]_vars


\* C23 (recorded hash): the bytes a worker's 2xx POST reads from the file are
\* the bytes it hashed before, and the hash it then stores is the hash of
\* those bytes.
C23_RecordedHash ==
    [][\A i \in 1..MaxWorkers :
          /\ (workers[i].pc = "post" /\ workers'[i].pc = "success") =>
                 /\ fs[workers[i].path].mod \in delivered'[workers[i].path]
                 /\ workers[i].localHash = fs[workers[i].path].mod
          /\ (workers[i].pc = "success" /\ workers'[i].pc = "move") =>
                 /\ fileLog'[workers[i].path].hash = workers[i].localHash
                 /\ workers[i].localHash \in delivered[workers[i].path]]_vars


\* C24 (recorded size): the row a worker stores after its 2xx carries the
\* size the file has at that moment.
C24_RecordedSize ==
    [][\A i \in 1..MaxWorkers :
          (workers[i].pc = "success" /\ workers'[i].pc = "move") =>
              /\ fileLog'[workers[i].path].present
              /\ fileLog'[workers[i].path].size = fs[workers[i].path].size]_vars


\* A source stands in probeAndSend at eventChan <- event and cannot go on:
\* the initial scan or the notifier has an entry to probe that passes the
\* filter, and the queue is full.
SourceBlocked ==
    /\ Len(eventChan) = EventChanCap
    /\ \/ \E p \in scanTodo : Eligible(p)
       \/ /\ ~remote.DisableFsnotify
          /\ ~ctxDone
          /\ \E p \in fsEvents : Eligible(p)

\* C25 (non-blocking sources): no source ever waits in its send on the event
\* queue.
C25_NonBlockingSources == ~SourceBlocked


\* The orchestrator takes a START from doneChan.
TakesStart ==
    /\ ~orchExited
    /\ doneChan /= <<>>
    /\ Head(doneChan).kind = "START"
    /\ doneChan' = Tail(doneChan)

\* C26 (START/Event serialisation): every START the orchestrator acts on
\* finds its path in pendingStates with the settling timer expired - no
\* timer started by a later event is still running - and the path not yet
\* Active.
C26_StartEventSerialisation ==
    [][TakesStart =>
          /\ pendingStates[Head(doneChan).path].exists
          /\ pendingStates[Head(doneChan).path].timer = NoTimer
          /\ Head(doneChan).path \notin activeProcessing]_vars


\* The FINISH messages for p that wait in doneChan.
Finishes(ch, p) == Cardinality({k \in 1..Len(ch) : ch[k] = Msg("FINISH", p)})

\* C27 (no leak of the active set): a worker goroutine ends only from its
\* deferred function - after it has given back its slot, and in the step that
\* puts one FINISH for its path on doneChan; every return of handleUpload
\* leads there; and, without cancellation, every path that is Active
\* eventually is not (directories and dot names never are, by C20).
C27_NoActiveLeak ==
    /\ [][\A i \in 1..MaxWorkers :
             /\ (workers[i].pc /= "idle" /\ workers'[i].pc = "idle") =>
                    /\ workers[i].pc = "finish"
                    /\ doneChan' = Append(doneChan, Msg("FINISH", workers[i].path))
                    /\ Finishes(doneChan', workers[i].path)
                           = Finishes(doneChan, workers[i].path) + 1
             /\ (workers[i].pc /= "finish" /\ workers'[i].pc = "finish") =>
                    /\ workers[i].pc = "release"
                    /\ semaphore' = semaphore - 1
             /\ (workers[i].pc \notin {"idle", "acquire", "release", "finish"}
                    /\ workers'[i].pc \notin {"start", "healmove", "loop", "sleep", "hash",
                                               "post", "backoff", "success", "move"}) =>
                    /\ workers'[i].pc = "release"
                    /\ workers'[i].path = workers[i].path
                    /\ workers'[i].exit \in {"missing", "errors", "healed", "stat",
                                              "timeout", "unreadable", "success", "failed"}]_vars
    /\ \A p \in AllPaths \ (Dirs \cup Hidden) :
          (p \in activeProcessing) ~> (p \notin activeProcessing)

\* C27 witness: a cycle that gave up on a file that is still in place has
\* ended: its FINISH is at the head of doneChan, no slot is taken, no worker
\* is left, and the path is still Active.
C27_Witness ==
    /\ doneChan /= <<>>
    /\ Head(doneChan).kind = "FINISH"
    /\ Head(doneChan).path \in activeProcessing
    /\ fs[Head(doneChan).path].exists
    /\ semaphore = 0
    /\ \A i \in 1..MaxWorkers : workers[i].pc = "idle"


\* C28 (stability threshold): a probe that finds the size it saw before and
\* can open the file read-write adds one to stable_count, a probe that finds
\* another size or a refused open sets it to 0, and neither touches the file
\* log; the worker goes on to hash and upload only from the head of the loop
\* with stable_count at the threshold, so after that many good probes in a
\* row.
C28_StabilityThreshold ==
    [][\A i \in 1..MaxWorkers :
          /\ (workers[i].pc = "sleep" /\ workers'[i].pc = "loop") =>
                 /\ workers'[i].stableCount =
                        (IF fs[workers[i].path].size = workers[i].lastSize
                               /\ ~fs[workers[i].path].locked
                         THEN workers[i].stableCount + 1 ELSE 0)
                 /\ workers'[i].lastSize = fs[workers[i].path].size
                 /\ UNCHANGED <<fileLog, delivered>>
          /\ (workers[i].pc /= "hash" /\ workers'[i].pc = "hash") =>
                 /\ workers[i].pc = "loop"
                 /\ workers[i].stableCount >= remote.StabilityThreshold
                 /\ workers[i].posts = 0
          /\ (workers[i].pc /= "post" /\ workers'[i].pc = "post") =>
                 workers[i].pc \in {"hash", "backoff"}
          /\ (workers[i].pc = "start" /\ workers'[i].pc = "loop") =>
                 workers'[i].stableCount = 0]_vars

\* C28 witness: a file of unchanged size that its writer holds open: a probe
\* has found the size it knew, and the count is 0.
C28_Witness ==
    \E i \in 1..MaxWorkers :
        /\ workers[i].pc = "loop"
        /\ workers[i].elapsed > 0
        /\ ~workers[i].unstable
        /\ workers[i].stableCount = 0
        /\ fs[workers[i].path].locked
        /\ fs[workers[i].path].size = 1
        /\ env.writes[workers[i].path] = 0
        /\ remote = Plain


\* C29 (transient I/O during stability): without cancellation, the probe
\* that ends a sleep of the stability loop takes the worker back to the head
\* of the loop, whatever it finds; when the stat fails (the file is not
\* there) or the open is refused, with the counter at 0.
C29_TransientIO ==
    [][\A i \in 1..MaxWorkers :
          (workers[i].pc = "sleep" /\ workers'[i].pc /= "sleep" /\ ~ctxDone) =>
              /\ workers'[i].pc = "loop"
              /\ (~fs[workers[i].path].exists \/ fs[workers[i].path].locked) =>
                     workers'[i].stableCount = 0]_vars


\* C30 (upload retry bound): a cycle makes at most 3 POSTs; every POST is one
\* more attempt of a worker that has had no 2xx yet; after its 2xx the
\* worker makes no other; and the step that counts the cycle as failed is
\* taken after 3 POSTs, none of them answered 2xx.
C30_UploadRetryBound ==
    /\ [](\A i \in 1..MaxWorkers :
             /\ workers[i].posts <= 3
             /\ workers[i].resp /= "none" =>
                    workers[i].pc \in {"success", "move", "release", "finish"})
    /\ [][\A i \in 1..MaxWorkers :
             /\ (workers'[i].posts /= workers[i].posts /\ workers'[i].pc /= "idle") =>
                    /\ workers[i].pc = "post"
                    /\ workers[i].resp = "none"
                    /\ workers'[i].posts = workers[i].posts + 1
             /\ FailedCycle(i) =>
                    /\ workers[i].posts = 3
                    /\ workers[i].resp = "none"
             /\ (workers[i].pc = "backoff" /\ workers'[i].pc /= "backoff"
                   /\ fileLog'[workers[i].path].ec > fileLog[workers[i].path].ec) =>
                    workers[i].posts = 3]_vars

\* C30 witness: two attempts failed and the third was answered 2xx.
C30_Witness ==
    \E i \in 1..MaxWorkers :
        /\ workers[i].pc = "success"
        /\ workers[i].posts = 3
        /\ workers[i].attempt = 2
        /\ env.fails = 1


\* C31 (aborted cycles leave state untouched): a worker that is in the
\* stability loop has made no POST and no file-log write; and the step by
\* which a cycle ends at its first stat (file missing), at the head of the
\* loop (stability timeout) or in the loop's sleep (cancellation, failed
\* stat) changes neither the file log nor the directory nor .done nor what
\* the server has, and ends a cycle without POST and without write.
C31_AbortedCycles ==
    /\ [](\A i \in 1..MaxWorkers :
             workers[i].pc \in {"start", "loop", "sleep"} =>
                 workers[i].posts = 0 /\ ~workers[i].wrote)
    /\ [][\A i \in 1..MaxWorkers :
             /\ (workers[i].pc \in {"loop", "sleep"} /\ workers'[i].pc = "release") =>
                    /\ workers'[i].exit \in {"timeout", "cancel", "stat"}
                    /\ workers'[i].posts = 0
                    /\ ~workers'[i].wrote
                    /\ UNCHANGED <<fileLog, fs, doneDir, delivered>>
             /\ (workers[i].pc = "start" /\ workers'[i].pc \notin {"start", "idle"}
                    /\ ~fs[workers[i].path].exists) =>
                    /\ workers'[i].pc = "release"
                    /\ workers'[i].exit = "missing"
                    /\ workers'[i].posts = 0
                    /\ ~workers'[i].wrote
                    /\ UNCHANGED <<fileLog, fs, doneDir, delivered>>]_vars

\* C31 witness: cancellation ended a cycle in its stability loop: the file
\* is in place, has no row, and nothing was delivered or archived.
C31_Witness ==
    \E i \in 1..MaxWorkers :
        /\ workers[i].pc = "release"
        /\ workers[i].exit = "cancel"
        /\ workers[i].posts = 0
        /\ fs[workers[i].path].exists
        /\ ~fileLog[workers[i].path].present
        /\ delivered[workers[i].path] = {}
        /\ doneDir[workers[i].path] = {}


\* The orchestrator takes an event for a path that is Active.
EventForActive ==
    /\ ~orchExited
    /\ eventChan /= <<>>
    /\ Head(eventChan).path \in activeProcessing
    /\ eventChan' = Tail(eventChan)
    /\ env' = env

\* C32 (events during Active are dropped): an event for an Active path
\* leaves both maps, every timer and doneChan as they are; an Active path
\* has no fileState and no timer of its own left that could admit it later;
\* and a path becomes Active only from Pending, that is after an event that
\* found it neither Pending nor Active.
C32_EventsDuringActive ==
    /\ [][EventForActive =>
             UNCHANGED <<pendingStates, activeProcessing, orphanTimers, closures,
                         doneChan, workers>>]_vars
    /\ [](\A p \in activeProcessing :
             /\ ~pendingStates[p].exists
             /\ orphanTimers[p] = <<>>)
    /\ [][\A p \in AllPaths :
             (p \notin activeProcessing /\ p \in activeProcessing') =>
                 pendingStates[p].exists]_vars


\* C33 (collision-safe Done-Move): whatever has been moved into .done stays
\* there: no step removes or replaces the bytes archived from a path.
C33_CollisionSafeMove ==
    [][\A p \in AllPaths : doneDir[p] \subseteq doneDir'[p]]_vars


\* C34 (no undelivered bytes are archived): the bytes that a worker's
\* Done-Move after its upload takes into .done have been received by the
\* server with a 2xx.
C34_NoUndeliveredArchived ==
    [][\A i \in 1..MaxWorkers :
          (/\ workers[i].pc = "move"
           /\ workers'[i].pc = "release"
           /\ fs[workers[i].path].exists
           /\ ~fs'[workers[i].path].exists) =>
              /\ fs[workers[i].path].mod \in doneDir'[workers[i].path]
              /\ fs[workers[i].path].mod \in delivered[workers[i].path]]_vars


\* The orchestrator takes the event at the head of eventChan, which is for p.
TakesEvent(p) ==
    /\ ~orchExited
    /\ eventChan /= <<>>
    /\ Head(eventChan).path = p
    /\ eventChan' = Tail(eventChan)
    /\ env' = env

\* C35 (Pending/Active disjointness): no path is Pending and Active at once;
\* events leave the queue from its head; after the orchestrator has taken an
\* event for a path that is not Active, the path is Pending with the size
\* and mod time of that event; and no other step changes the pair stored for
\* a path that stays Pending.
C35_PendingActiveDisjoint ==
    /\ [](\A p \in AllPaths : ~(pendingStates[p].exists /\ p \in activeProcessing))
    /\ [][\A p \in AllPaths :
             /\ (TakesEvent(p) /\ p \notin activeProcessing) =>
                    /\ pendingStates'[p].exists
                    /\ pendingStates'[p].lastSize = Head(eventChan).size
                    /\ pendingStates'[p].lastMod = Head(eventChan).mod
             /\ (~TakesEvent(p) /\ pendingStates[p].exists /\ pendingStates'[p].exists) =>
                    /\ pendingStates'[p].lastSize = pendingStates[p].lastSize
                    /\ pendingStates'[p].lastMod = pendingStates[p].lastMod
             /\ (Len(eventChan') < Len(eventChan) /\ env' = env) =>
                    eventChan' = Tail(eventChan)]_vars

\* C35 witness: a Pending path stores the size and mod time of its second,
\* changed event, while the closure of its first timer has still to send.
C35_Witness ==
    /\ pendingStates["a"].exists
    /\ pendingStates["a"].lastMod = 2
    /\ pendingStates["a"].lastSize = 2
    /\ closures["a"] > 0
    /\ "a" \notin activeProcessing


\* A sender of the given kind is at its send on doneChan: a fired timer's
\* closure (START) or a worker's deferred function (FINISH).
ControlSender(kind) ==
    IF kind = "START"
    THEN \E p \in AllPaths : closures[p] > 0
    ELSE \E i \in 1..MaxWorkers : workers[i].pc = "finish"

\* C36 (deadlock freedom while running): without cancellation the
\* orchestrator is ready to receive whenever one of its queues holds a
\* message - it never waits in a send of its own. So a source that waits in
\* its send on the full event queue gets its event through, and a closure
\* or a worker that is at its send on the control queue leads to a message
\* of its kind at the head of the control queue, where the orchestrator
\* takes it.
C36_DeadlockFreedom ==
    /\ [](eventChan /= <<>> => ENABLED OrchEvent)
    /\ [](doneChan /= <<>> => ENABLED (OrchStart \/ OrchFinish))
    /\ SourceBlocked ~> ~SourceBlocked
    /\ \A kind \in {"START", "FINISH"} :
          ControlSender(kind) ~> (doneChan /= <<>> /\ Head(doneChan).kind = kind)

\* C36 witness: a source waits in its send on the full event queue while the
\* control queue is full as well.
C36_Witness ==
    /\ ~ctxDone
    /\ SourceBlocked
    /\ Len(doneChan) = DoneChanCap


\* Worker i is inside api.UploadFile.
InUploadFile(i) == workers[i].pc \in {"hash", "post", "backoff", "success"}

\* Worker i's UploadFile call invokes onSuccess, or onError, in this step.
CallsOnSuccess(i) == workers[i].pc = "success" /\ workers'[i].pc = "move"
CallsOnError(i) == workers[i].pc = "backoff" /\ workers'[i].exit = "failed"

\* C37 (exclusive outcome callbacks): a worker inside UploadFile has invoked
\* no callback yet; the step that invokes onSuccess or onError is the only
\* one in the call and leaves UploadFile; the file log changes inside
\* UploadFile only in such a step; and a call that returns because the file
\* cannot be opened or hashed, or because the context is cancelled during a
\* back-off, has invoked no callback: the file log is as it was.
C37_ExclusiveCallbacks ==
    /\ [](\A i \in 1..MaxWorkers : InUploadFile(i) => ~workers[i].wrote)
    /\ [][\A i \in 1..MaxWorkers :
             /\ ~(CallsOnSuccess(i) /\ CallsOnError(i))
             /\ (CallsOnSuccess(i) \/ CallsOnError(i)) =>
                    /\ ~workers[i].wrote
                    /\ workers'[i].wrote
                    /\ workers'[i].pc \in {"move", "release"}
             /\ (InUploadFile(i) /\ workers'[i] /= workers[i] /\ workers'[i].pc /= "idle"
                    /\ ~CallsOnSuccess(i) /\ ~CallsOnError(i)) =>
                    /\ fileLog' = fileLog
                    /\ ~workers'[i].wrote
             /\ (InUploadFile(i) /\ workers'[i].pc = "release"
                    /\ workers'[i].exit \in {"unreadable", "cancel"}) =>
                    /\ workers[i].pc \in {"hash", "backoff"}
                    /\ fileLog' = fileLog
                    /\ ~workers'[i].wrote]_vars

\* C37 witness: a call has returned from a back-off because of the
\* cancellation, after a failed attempt and without a callback; the file log
\* has no row for its file.
C37_Witness ==
    \E i \in 1..MaxWorkers :
        /\ workers[i].pc = "release"
        /\ workers[i].exit = "cancel"
        /\ workers[i].posts > 0
        /\ ~workers[i].wrote
        /\ fileLog[workers[i].path] = NoRecord


\* Every probe of worker i's stability loop so far found the size unchanged
\* and the file openable: each of them took one check interval and added one
\* to the count.
AllProbesGood(i) ==
    /\ workers[i].pc = "loop"
    /\ workers[i].stableCount * CheckInt(remote) = workers[i].elapsed

\* C38 (stable file passes verification): with any configuration, a worker
\* whose every probe found the file stable is not abandoned by the stability
\* timeout, and it leaves the loop for the upload with exactly
\* stability_threshold probes made.
C38_StableFilePasses ==
    [][\A i \in 1..MaxWorkers :
          AllProbesGood(i) =>
              /\ ~(workers'[i].pc = "release" /\ workers'[i].exit = "timeout")
              /\ workers'[i].pc = "hash" =>
                     workers[i].stableCount = Threshold(remote)]_vars


====
